---- MODULE Spec2Model ----
(***************************************************************************)
(* The acquisition/control core of the human-detection system: the         *)
(* counter-based DetectionWorker.run loop                                  *)
(* (src/src/workers/detection_worker.py), the sensor's frame acquisition   *)
(* and its LED command threads (src/src/hardware/sensor.py), and the       *)
(* consumer's start and stop commands and configuration handlers           *)
(* (src/src/gui/main_window.py).                                           *)
(*                                                                         *)
(* Time.  The code reads time.time() and only ever subtracts a stored      *)
(* timestamp from a later reading of the clock.  A stored timestamp t is   *)
(* therefore kept as its age, now - t: recording time.time() stores age 0, *)
(* and every passage of time dt (a poll, a predict call, a sleep) adds dt  *)
(* to every stored age.  One tick is 1/TicksPerSecond seconds.             *)
(*                                                                         *)
(* Optional values.  Python's None is the empty tuple, a present value x   *)
(* is the one-element tuple <<x>>.                                         *)
(***************************************************************************)
EXTENDS Integers, Sequences, FiniteSets, TLC

----------------------------------------------------------------------------
(* Bounds of the model *)

\* number of get_data_from_server calls one run of the loop may make
MaxPolls == 3
\* longest duration, in ticks, of one detector.predict call under SpecRate
MaxProc == 2
\* largest total_data_blocks the device may announce
MaxBlocks == 3
\* the same under SpecWindow: enough to fill the rate window and go past it
MaxWindowPolls == 12
\* number of times the start button may be pressed under SpecStart
MaxStarts == 2
\* threads of the window's QThreadPool: the cores of the host
MaxThreadCount == 2
\* size_of_raw_adc, the samples of one full block, scaled down
SizeOfRawAdc == 2

----------------------------------------------------------------------------
(* Program constants *)

LED_TIMER_DURATION == 15
\* self.buffer_size = (self.size_of_raw_adc + 17) * 4: the floats of a header
HEADER_FLOATS == 17
SIGNALS_PER_SECOND == 2
DEFAULT_DISTANCE_THRESHOLD_CM == 10
DEQUE_MAXLEN == 10

\* resolution of the clock: half a SIGNAL_DELAY per tick
TicksPerSecond == 2 * SIGNALS_PER_SECOND
\* SIGNAL_DELAY = 1.0 / SIGNALS_PER_SECOND seconds, in ticks
SIGNAL_DELAY == TicksPerSecond \div SIGNALS_PER_SECOND
\* the LED_TIMER_DURATION the worker module compares the counter with, in ticks
LedTimerDuration == LED_TIMER_DURATION * TicksPerSecond

----------------------------------------------------------------------------
(* Inputs *)

None == <<>>
Some(x) == <<x>>
Val(o) == o[1]

\* float("nan"): a float that is no number, written as a number that no
\* input of the model takes; every comparison with it is false
NaN == -1
FloatLe(x, y) == x # NaN /\ y # NaN /\ x <= y
FloatGt(x, y) == x # NaN /\ y # NaN /\ x > y

\* distance_cm values a valid frame may carry
Distances == {50, 65}
\* thresholds the window may hold when it constructs the worker
Thresholds == {DEFAULT_DISTANCE_THRESHOLD_CM, 15}
\* what the user may type into the threshold and the timer fields: text that
\* is no number (None) or a number
ThresholdInputs == {None, Some(0), Some(15), Some(101)}
TimerInputs == {None, Some(0), Some(5), Some(20), Some(301)}
\* the same with more of the texts float() accepts, "nan" among them
ThresholdTexts == {None, Some(NaN), Some(0), Some(5), Some(100), Some(101)}
TimerTexts == {None, Some(NaN), Some(0), Some(20), Some(300), Some(301)}
\* detector.predict returns 1 (HUMAN), 0 (NON-HUMAN) or None (UNCERTAIN)
Predictions == {Some(1), Some(0), None}
\* how long one get_data_from_server call may take (recv has no timeout):
\* no measurable time, or long enough for the LED timer to run out
PollTimes == {0, LedTimerDuration - SIGNAL_DELAY}
\* the same for SpecConfig, with a call of 5 s between the two
ConfigPollTimes == PollTimes \cup {5 * TicksPerSecond}
\* how long one predict call may take: no measurable time, or a full delay
ProcTimes == {0, SIGNAL_DELAY}
\* a call that takes no measurable time
NoTime == {0}
\* the third value get_data_from_server returns with a header and data: a
\* distance, or None
ReadingDistances == {None} \cup {Some(d) : d \in Distances}
\* the classifier's verdict on a still scene without a person: NON-HUMAN
StillPredictions == {Some(0)}
\* the finer durations of SpecRate, and its still scene
FinePollTimes == {0, 1}
StillDistances == {50}
FineProcTimes == 0..MaxProc

SignalNames == {"result", "error", "finished", "total_signals_count_updated",
                "broken_signals_count_updated", "activity_detected",
                "led_state_changed"}

Abs(x) == IF x < 0 THEN -x ELSE x

\* a stored timestamp, dt later
Aged(t, dt) == IF t = None THEN None ELSE Some(Val(t) + dt)
AgedAll(s, dt) == [i \in DOMAIN s |-> s[i] + dt]

----------------------------------------------------------------------------
VARIABLES
    \* DetectionWorker fields
    is_running, distance_threshold_cm,
    total_signals_count, broken_signals_count, valid_signal_count,
    human_detections, non_human_detections, uncertain_detections,
    activity_count, previous_distance,
    led_state, led_timer_counter, last_counter_update_time,
    current_detection_state, valid_signal_times,
    \* locals of run
    pc, data_valid, distance, activity_detected, distance_change,
    prediction, valid_signal_start_time, elapsed, sleep_time, actual_rate,
    \* DetectionWorkerSignals: how often each signal was emitted, and the
    \* arguments of the latest led_state_changed
    emitted, last_led_event,
    \* RedPitayaSensor: the control_led7 calls made, in order; the commands of
    \* the LED threads started and not yet finished; the LED of the device;
    \* whether a remote LED command has failed
    led_cmds, led_threads, led_physical, led_failed,
    \* RedPitayaSensor.get_data_from_server: total_data_blocks, the loop
    \* index i, the sample count of each block appended to ultrasonic_data,
    \* whether header was parsed, dmax_raw in thousandths, distance_cm, the
    \* position in the call, what it returned, and the position at which a
    \* block index differed from the expected one
    total_data_blocks, block_i, ultrasonic_data, header, dmax_raw, distance_cm,
    frame_pc, frame_ret, mismatch_at,
    \* the 'signal' of the DetectionResult built from that return value
    signal,
    \* the "-a 1" requests sent and the datagrams received by the call
    requests, replies,
    \* MainWindow: whether self.detector is loaded; the position of the
    \* consumer thread in start_sensor_btn_handler; the DetectionWorker objects
    \* handed to the thread pool, each with its is_running flag and the
    \* position of its loop; which of them self.worker is (0: None); whether
    \* get_data_info_from_server has returned; the presses of the start
    \* button and the starts that failed
    detector, start_pc, workers, window_worker, handshake_done, starts,
    start_errors,
    \* at the moment stop() set the flag: the results emitted and the calls of
    \* get_data_from_server made until then
    stop_mark,
    \* MainWindow: position of the consumer thread in worker.stop(), and the
    \* window's own configuration fields
    gui_pc, window_distance_threshold_cm, window_led_timer_duration,
    \* the fields of the worker object the consumer thread has read or
    \* written itself
    gui_access,
    \* config.settings.LED_TIMER_DURATION, the module attribute, in seconds
    settings_LED_TIMER_DURATION,
    \* observations: calls of get_data_from_server; whether the iteration in
    \* progress called time.sleep; whether a socket error was raised; while a
    \* valid reading is processed, the duration of the poll that delivered it;
    \* whether the previous iteration ran to its throttle with no poll since;
    \* the time between the start marks of two such valid readings
    polls, slept, link_error, poll_time, gap_clean, interval

stats == <<total_signals_count, broken_signals_count, valid_signal_count,
           human_detections, non_human_detections, uncertain_detections,
           activity_count>>
led == <<led_state, led_timer_counter, last_counter_update_time>>
locals == <<data_valid, distance, activity_detected, distance_change,
            prediction, valid_signal_start_time, elapsed, sleep_time,
            actual_rate>>
obs == <<polls, slept, link_error, poll_time, gap_clean, interval>>

config == <<window_distance_threshold_cm, window_led_timer_duration,
            settings_LED_TIMER_DURATION>>

frame == <<total_data_blocks, block_i, ultrasonic_data, header, dmax_raw,
           distance_cm, frame_pc, frame_ret, mismatch_at, signal, requests,
           replies>>
device == <<led_physical, led_failed>>
session == <<detector, start_pc, workers, window_worker, handshake_done,
             starts, start_errors>>

vars == <<is_running, distance_threshold_cm, stats, previous_distance, led,
          current_detection_state, valid_signal_times, pc, locals, emitted,
          last_led_event, led_cmds, led_threads, device, gui_pc, gui_access,
          config, obs, frame, session, stop_mark>>

Emit(e, name) == [e EXCEPT ![name] = @ + 1]

\* a rate in readings per tick, as a fraction; actual_rate = 0
Rate(n, d) == [num |-> n, den |-> d]
ZeroRate == Rate(0, 1)

\* the passage of dt ticks, seen by the timestamps an action does not write
Elapse3(dt) ==
    /\ last_counter_update_time' = Aged(last_counter_update_time, dt)
    /\ valid_signal_start_time' = Aged(valid_signal_start_time, dt)
    /\ valid_signal_times' = AgedAll(valid_signal_times, dt)

----------------------------------------------------------------------------
(* DetectionWorker.__init__ and the thread pool's start of run *)

InitWorker ==
    /\ is_running = TRUE
    /\ distance_threshold_cm \in Thresholds
    /\ total_signals_count = 0
    /\ broken_signals_count = 0
    /\ valid_signal_count = 0
    /\ human_detections = 0
    /\ non_human_detections = 0
    /\ uncertain_detections = 0
    /\ activity_count = 0
    /\ previous_distance = None
    /\ led_state = FALSE
    /\ led_timer_counter = 0
    /\ last_counter_update_time = None
    /\ current_detection_state = "None"
    /\ valid_signal_times = <<>>
    /\ pc = "top"
    /\ data_valid = FALSE
    /\ distance = None
    /\ activity_detected = FALSE
    /\ distance_change = 0
    /\ prediction = None
    /\ valid_signal_start_time = None
    /\ elapsed = 0
    /\ sleep_time = 0
    /\ actual_rate = ZeroRate
    /\ stop_mark = None
    /\ emitted = [s \in SignalNames |-> 0]
    /\ last_led_event = None
    /\ led_cmds = <<>>
    /\ led_threads = <<>>
    /\ led_physical = FALSE
    /\ led_failed = FALSE
    /\ gui_pc = "idle"
    /\ gui_access = {}
    /\ window_distance_threshold_cm = distance_threshold_cm
    /\ window_led_timer_duration = LED_TIMER_DURATION
    /\ settings_LED_TIMER_DURATION = LED_TIMER_DURATION
    /\ polls = 0
    /\ slept = FALSE
    /\ link_error = FALSE
    /\ poll_time = 0
    /\ gap_clean = FALSE
    /\ interval = None

\* no get_data_from_server call in progress
FrameIdle ==
    /\ total_data_blocks = 1
    /\ block_i = 0
    /\ ultrasonic_data = <<>>
    /\ header = FALSE
    /\ dmax_raw = None
    /\ distance_cm = None
    /\ frame_pc = "idle"
    /\ frame_ret = None
    /\ mismatch_at = None
    /\ signal = None
    /\ requests = 0
    /\ replies = 0

\* the window's start and stop handlers at rest, as the start that created
\* the one worker of the specifications above SpecStart left them: model
\* loaded, handshake done.  workers holds the loops SpecStart starts.
SessionIdle ==
    /\ detector = TRUE
    /\ start_pc = "idle"
    /\ workers = <<>>
    /\ window_worker = 0
    /\ handshake_done = TRUE
    /\ starts = 0
    /\ start_errors = 0

\* MainWindow.__init__ and RedPitayaSensor.__init__: preload_model has loaded
\* the model or failed to, no worker, header_length and total_data_blocks None
SessionBegins ==
    /\ detector \in BOOLEAN
    /\ start_pc = "idle"
    /\ workers = <<>>
    /\ window_worker = 0
    /\ handshake_done = FALSE
    /\ starts = 0
    /\ start_errors = 0

Init == InitWorker /\ FrameIdle /\ SessionIdle

----------------------------------------------------------------------------
(* RedPitayaSensor.control_led7: dispatch of one LED command *)

\* the call made and nothing started: the command has run inside the call
control_led7_Blocking(turn_on) ==
    /\ led_cmds' = Append(led_cmds, turn_on)
    /\ UNCHANGED led_threads

\* thread = Thread(target=self._control_led7_async, args=(turn_on,),
\* daemon=True); thread.start(); return True
control_led7(turn_on) ==
    /\ led_cmds' = Append(led_cmds, turn_on)
    /\ led_threads' = Append(led_threads, turn_on)

----------------------------------------------------------------------------
(* DetectionWorker.run *)

\* the loop without its test of the flag
LoopTop_IgnoresFlag ==
    /\ pc = "top"
    /\ polls < MaxPolls
    /\ pc' = "poll"
    /\ UNCHANGED <<is_running, distance_threshold_cm, stats, previous_distance,
                   led, current_detection_state, valid_signal_times, locals,
                   emitted, last_led_event, led_cmds, led_threads, gui_pc,
                   gui_access, stop_mark, config, obs>>
    /\ UNCHANGED <<frame, session, device>>

\* while self.is_running: with at most max polls
LoopTopUpTo(max) ==
    /\ pc = "top"
    /\ IF is_running
       THEN polls < max /\ pc' = "poll"
       ELSE pc' = "done"
    /\ UNCHANGED <<is_running, distance_threshold_cm, stats, previous_distance,
                   led, current_detection_state, valid_signal_times, locals,
                   emitted, last_led_event, led_cmds, led_threads, gui_pc,
                   gui_access, stop_mark, config, obs>>
    /\ UNCHANGED <<frame, session, device>>

\* while self.is_running:
LoopTop == LoopTopUpTo(MaxPolls)

\* get_data_from_server raises (socket error): control goes to the except clause
PollRaise(q) ==
    /\ pc = "poll"
    /\ polls' = polls + 1
    /\ slept' = FALSE
    /\ link_error' = TRUE
    /\ gap_clean' = FALSE
    /\ Elapse3(q)
    /\ pc' = "except"
    /\ UNCHANGED <<is_running, distance_threshold_cm, stats, previous_distance,
                   led_state, led_timer_counter, current_detection_state,
                   data_valid, actual_rate, distance, activity_detected,
                   distance_change,
                   prediction, elapsed, sleep_time, emitted, last_led_event,
                   led_cmds, led_threads, gui_pc, gui_access, stop_mark,
                   config, poll_time, interval>>
    /\ UNCHANGED <<frame, session, device>>

\* the broken branch without its "continue": on to the rate estimate
AfterBroken_FallsThrough == "rate"

\* where the broken branch's "continue" leads: the finally clause
AfterBroken == "finally"

\* the broken branch forgetting the last distance
BrokenPrevious_Reset(prev) == None

\* the broken branch assigns nothing to self.previous_distance
BrokenPrevious(prev) == prev

\* the broken branch without its count
CountBroken_Missing(n) == n

\* self.broken_signals_count += 1
CountBroken(n) == n + 1

\* get_data_from_server returns (None, None, None)
PollBroken(q) ==
    /\ pc = "poll"
    /\ polls' = polls + 1
    /\ slept' = FALSE
    /\ gap_clean' = FALSE
    /\ Elapse3(q)
    /\ data_valid' = FALSE
    /\ distance' = None
    /\ total_signals_count' = total_signals_count + 1
    /\ broken_signals_count' = CountBroken(broken_signals_count)
    /\ emitted' = Emit(Emit(emitted, "total_signals_count_updated"),
                       "broken_signals_count_updated")
    /\ previous_distance' = BrokenPrevious(previous_distance)
    /\ pc' = AfterBroken
    /\ UNCHANGED <<is_running, distance_threshold_cm, valid_signal_count,
                   human_detections, non_human_detections, uncertain_detections,
                   activity_count, led_state,
                   led_timer_counter, current_detection_state, actual_rate,
                   activity_detected, distance_change, prediction, elapsed,
                   sleep_time, last_led_event, led_cmds, led_threads, gui_pc,
                   gui_access, stop_mark, config, link_error,
                   poll_time, interval>>
    /\ UNCHANGED <<frame, session, device>>

\* get_data_from_server returns header and data, with the distance dist
\* (absent or present) as the third value
PollReading(q, dist) ==
    /\ pc = "poll"
    /\ polls' = polls + 1
    /\ slept' = FALSE
    /\ poll_time' = q
    /\ interval' = IF gap_clean /\ valid_signal_start_time # None
                   THEN Some(Val(valid_signal_start_time) + q)
                   ELSE None
    /\ gap_clean' = FALSE
    /\ last_counter_update_time' = Aged(last_counter_update_time, q)
    /\ valid_signal_times' = AgedAll(valid_signal_times, q)
    /\ data_valid' = TRUE
    /\ distance' = dist
    /\ total_signals_count' = total_signals_count + 1
    /\ emitted' = Emit(emitted, "total_signals_count_updated")
    /\ valid_signal_start_time' = Some(0)
    /\ valid_signal_count' = valid_signal_count + 1
    /\ pc' = "activity"
    /\ UNCHANGED <<is_running, distance_threshold_cm, broken_signals_count,
                   human_detections, non_human_detections, uncertain_detections,
                   activity_count, previous_distance, led_state,
                   led_timer_counter, current_detection_state, actual_rate,
                   activity_detected, distance_change, prediction,
                   elapsed, sleep_time, last_led_event, led_cmds, led_threads,
                   gui_pc, gui_access, stop_mark, config,
                   link_error>>
    /\ UNCHANGED <<frame, session, device>>

\* get_data_from_server returns a full frame with distance d
PollValid(q, d) == PollReading(q, Some(d))

----------------------------------------------------------------------------
(* STEP 1: activity detection *)

\* if self.previous_distance is not None and distance is not None:
\*     distance_change = abs(distance - self.previous_distance)
DistanceChange(prev, d) ==
    IF prev # None /\ d # None THEN Abs(Val(d) - Val(prev)) ELSE 0

\* the comparison with the threshold, not strict
ActivityDetected_NotStrict(prev, d, thr) ==
    prev # None /\ d # None /\ thr # NaN /\ DistanceChange(prev, d) >= thr

\* ... if distance_change > self.distance_threshold_cm: activity_detected = True
ActivityDetected(prev, d, thr) ==
    prev # None /\ d # None /\ FloatGt(DistanceChange(prev, d), thr)

\* the entry run by every activity event, LED on or not
LedOnEntry_Always ==
    /\ control_led7(TRUE)
    /\ led_state' = TRUE
    /\ led_timer_counter' = 0
    /\ last_counter_update_time' = Some(0)

\* the entry without the control_led7 call
LedOnEntry_NoCommand ==
    IF ~led_state
    THEN /\ led_state' = TRUE
         /\ led_timer_counter' = 0
         /\ last_counter_update_time' = Some(0)
         /\ UNCHANGED <<led_cmds, led_threads>>
    ELSE UNCHANGED <<led_cmds, led_threads, led>>

\* if not self.led_state: turn LED7 on and initialise the counter
LedOnEntry ==
    IF ~led_state
    THEN /\ control_led7(TRUE)
         /\ led_state' = TRUE
         /\ led_timer_counter' = 0
         /\ last_counter_update_time' = Some(0)
    ELSE UNCHANGED <<led_cmds, led_threads, led>>

\* the body run outside its "if", on every valid reading
ActivityEffects_Unconditional(detected) ==
    /\ activity_count' = activity_count + 1
    /\ LedOnEntry
    /\ emitted' = Emit(emitted, "activity_detected")

\* the body of "if distance_change > self.distance_threshold_cm:"
ActivityEffects(detected) ==
    IF detected
    THEN /\ activity_count' = activity_count + 1
         /\ LedOnEntry
         /\ emitted' = Emit(emitted, "activity_detected")
    ELSE UNCHANGED <<activity_count, led_cmds, led_threads, led, emitted>>

\* the previous distance kept when the current one is absent
NextPreviousDistance_KeepsLast(prev, d) == IF d = None THEN prev ELSE d

\* self.previous_distance = distance
NextPreviousDistance(prev, d) == d

ActivityStep ==
    /\ pc = "activity"
    /\ activity_detected' =
           ActivityDetected(previous_distance, distance, distance_threshold_cm)
    /\ distance_change' = DistanceChange(previous_distance, distance)
    /\ ActivityEffects(activity_detected')
    /\ previous_distance' = NextPreviousDistance(previous_distance, distance)
    /\ pc' = "classify"
    /\ UNCHANGED <<is_running, distance_threshold_cm, total_signals_count,
                   broken_signals_count, valid_signal_count, human_detections,
                   non_human_detections, uncertain_detections,
                   current_detection_state, valid_signal_times, data_valid,
                   actual_rate,
                   distance, prediction, valid_signal_start_time, elapsed,
                   sleep_time, last_led_event, gui_pc, gui_access, stop_mark,
                   config, obs>>
    /\ UNCHANGED <<frame, session, device>>

----------------------------------------------------------------------------
(* STEP 2: CNN classification *)

\* the label the if/elif/else on prediction stores
DetectionState(v) ==
    IF v = Some(1) THEN "human"
    ELSE IF v = Some(0) THEN "non-human"
    ELSE "uncertain"

\* detector.predict returns verdict v after p ticks
Classify(v, p) ==
    /\ pc = "classify"
    /\ Elapse3(p)
    /\ prediction' = v
    /\ current_detection_state' = DetectionState(v)
    /\ human_detections' = human_detections + (IF v = Some(1) THEN 1 ELSE 0)
    /\ non_human_detections' =
           non_human_detections + (IF v = Some(0) THEN 1 ELSE 0)
    /\ uncertain_detections' =
           uncertain_detections + (IF v \notin {Some(1), Some(0)} THEN 1 ELSE 0)
    /\ pc' = "timer"
    /\ UNCHANGED <<is_running, distance_threshold_cm, total_signals_count,
                   broken_signals_count, valid_signal_count, activity_count,
                   previous_distance, led_state, led_timer_counter, data_valid,
                   actual_rate,
                   distance, activity_detected, distance_change, elapsed,
                   sleep_time, emitted, last_led_event, led_cmds, led_threads,
                   gui_pc, gui_access, stop_mark, config, obs>>
    /\ UNCHANGED <<frame, session, device>>

\* detector.predict raises after p ticks: control goes to the except clause
ClassifyRaise(p) ==
    /\ pc = "classify"
    /\ Elapse3(p)
    /\ pc' = "except"
    /\ UNCHANGED <<is_running, distance_threshold_cm, stats, previous_distance,
                   led_state, led_timer_counter, current_detection_state,
                   data_valid, actual_rate, distance, activity_detected,
                   distance_change,
                   prediction, elapsed, sleep_time, emitted, last_led_event,
                   led_cmds, led_threads, gui_pc, gui_access, stop_mark,
                   config, obs>>
    /\ UNCHANGED <<frame, session, device>>

----------------------------------------------------------------------------
(* STEP 3: timer management, counter based *)

\* self.led_timer_counter += current_time - self.last_counter_update_time
AdvancedCounter(counter, last) ==
    IF last # None THEN counter + Val(last) ELSE counter

\* the comparison with the duration, strict
TimerExpired_Strict(counter) == counter > LedTimerDuration

\* if self.led_timer_counter >= LED_TIMER_DURATION:
TimerExpired(counter) == counter >= LedTimerDuration

\* self.signals.led_state_changed.emit(state, reason)
EmitLedStateChanged(state, reason) ==
    /\ emitted' = Emit(emitted, "led_state_changed")
    /\ last_led_event' = Some(<<state, reason>>)

\* HUMAN at the duration handled as NON-HUMAN is: LED off
HumanTick_OffAtDuration(counter) ==
    IF TimerExpired(counter)
    THEN /\ control_led7(FALSE)
         /\ led_state' = FALSE
         /\ led_timer_counter' = 0
         /\ last_counter_update_time' = None
         /\ EmitLedStateChanged(FALSE, "HUMAN")
    ELSE /\ led_timer_counter' = 0
         /\ EmitLedStateChanged(TRUE, "TIMER_RESET")
         /\ last_counter_update_time' = Some(0)
         /\ UNCHANGED <<led_state, led_cmds, led_threads>>

\* HUMAN: the counter is reset, at the duration or below it; the LED stays on
HumanTick(counter) ==
    /\ led_timer_counter' = 0
    /\ IF TimerExpired(counter)
       THEN EmitLedStateChanged(TRUE, "TIMER_RESET_15S")
       ELSE EmitLedStateChanged(TRUE, "TIMER_RESET")
    /\ last_counter_update_time' = Some(0)
    /\ UNCHANGED <<led_state, led_cmds, led_threads>>

\* NON-HUMAN and UNCERTAIN: LED off once the counter reached the duration
NonHumanTick(counter, reason) ==
    IF TimerExpired(counter)
    THEN /\ control_led7(FALSE)
         /\ led_state' = FALSE
         /\ led_timer_counter' = 0
         /\ last_counter_update_time' = None
         /\ EmitLedStateChanged(FALSE, reason)
    ELSE /\ led_timer_counter' = counter
         /\ last_counter_update_time' = Some(0)
         /\ UNCHANGED <<led_state, led_cmds, led_threads, emitted,
                        last_led_event>>

TimerStep ==
    /\ pc = "timer"
    /\ IF led_state
       THEN IF current_detection_state = "human"
            THEN HumanTick(AdvancedCounter(led_timer_counter,
                                           last_counter_update_time))
            ELSE NonHumanTick(AdvancedCounter(led_timer_counter,
                                              last_counter_update_time),
                              IF current_detection_state = "non-human"
                              THEN "NON_HUMAN" ELSE "UNCERTAIN")
       ELSE UNCHANGED <<led, led_cmds, led_threads, emitted, last_led_event>>
    /\ pc' = "rate"
    /\ UNCHANGED <<is_running, distance_threshold_cm, stats, previous_distance,
                   current_detection_state, valid_signal_times, locals, gui_pc,
                   gui_access, stop_mark, config,
                   obs>>
    /\ UNCHANGED <<frame, session, device>>

----------------------------------------------------------------------------
(* rate estimate and result *)

\* the window with no limit on its length
DequeAppend_Unbounded(s, x) == Append(s, x)

\* deque(maxlen=10).append
DequeAppend(s, x) ==
    IF Len(s) < DEQUE_MAXLEN THEN Append(s, x) ELSE Append(Tail(s), x)

\* time_span = self.valid_signal_times[-1] - self.valid_signal_times[0]
TimeSpan(times) == times[1] - times[Len(times)]

\* actual_rate, from the window after the append
ActualRate(times) ==
    IF Len(times) >= 2
    THEN IF TimeSpan(times) > 0
         THEN Rate(Len(times) - 1, TimeSpan(times))
         ELSE ZeroRate
    ELSE ZeroRate

RateAndEmit ==
    /\ pc = "rate"
    /\ valid_signal_times' = DequeAppend(valid_signal_times, 0)
    /\ actual_rate' = ActualRate(valid_signal_times')
    /\ emitted' = Emit(emitted, "result")
    /\ pc' = "throttle"
    /\ UNCHANGED <<is_running, distance_threshold_cm, stats, previous_distance,
                   led, current_detection_state, data_valid, distance,
                   activity_detected, distance_change, prediction,
                   valid_signal_start_time, elapsed, sleep_time, last_led_event,
                   led_cmds, led_threads, gui_pc, gui_access, stop_mark,
                   config, obs>>
    /\ UNCHANGED <<frame, session, device>>

----------------------------------------------------------------------------
(* rate control *)

\* if elapsed < SIGNAL_DELAY:
ShouldSleep(el) == el < SIGNAL_DELAY

\* the full delay, whatever time the processing took
SleepTime_FullDelay(el) == SIGNAL_DELAY

\* sleep_time = SIGNAL_DELAY - elapsed
SleepTime(el) == SIGNAL_DELAY - el

Throttle ==
    /\ pc = "throttle"
    /\ elapsed' = Val(valid_signal_start_time)
    /\ IF ShouldSleep(elapsed')
       THEN /\ sleep_time' = SleepTime(elapsed')
            /\ slept' = TRUE
            /\ Elapse3(sleep_time')
       ELSE UNCHANGED <<sleep_time, slept, last_counter_update_time,
                        valid_signal_start_time, valid_signal_times>>
    /\ gap_clean' = TRUE
    /\ interval' = None
    /\ poll_time' = 0
    /\ pc' = "finally"
    /\ UNCHANGED <<is_running, distance_threshold_cm, stats, previous_distance,
                   led_state, led_timer_counter, current_detection_state,
                   data_valid, actual_rate, distance, activity_detected,
                   distance_change,
                   prediction, emitted, last_led_event, led_cmds, led_threads,
                   gui_pc, gui_access, stop_mark, config,
                   polls, link_error>>
    /\ UNCHANGED <<frame, session, device>>

----------------------------------------------------------------------------
(* except Exception / finally *)

\* except Exception as e: print, traceback.print_exc()
Except ==
    /\ pc = "except"
    /\ pc' = "finally"
    /\ poll_time' = 0
    /\ interval' = None
    /\ UNCHANGED <<is_running, distance_threshold_cm, stats, previous_distance,
                   led, current_detection_state, valid_signal_times, locals,
                   emitted, last_led_event, led_cmds, led_threads, gui_pc,
                   gui_access, stop_mark, config, polls, slept,
                   link_error, gap_clean>>
    /\ UNCHANGED <<frame, session, device>>

\* the rate-control sleep placed in the finally clause
Finally_Sleeping ==
    /\ pc = "finally"
    /\ emitted' = Emit(emitted, "finished")
    /\ slept' = TRUE
    /\ Elapse3(SIGNAL_DELAY)
    /\ pc' = "top"
    /\ UNCHANGED <<is_running, distance_threshold_cm, stats, previous_distance,
                   led_state, led_timer_counter, current_detection_state,
                   data_valid, actual_rate, distance, activity_detected,
                   distance_change,
                   prediction, elapsed, sleep_time, last_led_event, led_cmds,
                   led_threads,
                   gui_pc, gui_access, stop_mark, config, polls, link_error,
                   poll_time, gap_clean,
                   interval>>
    /\ UNCHANGED <<frame, session, device>>

\* finally: self.signals.finished.emit()
Finally ==
    /\ pc = "finally"
    /\ emitted' = Emit(emitted, "finished")
    /\ pc' = "top"
    /\ UNCHANGED <<is_running, distance_threshold_cm, stats, previous_distance,
                   led, current_detection_state, valid_signal_times, locals,
                   last_led_event, led_cmds, led_threads, gui_pc, gui_access,
                   stop_mark, config, obs>>
    /\ UNCHANGED <<frame, session, device>>

----------------------------------------------------------------------------
(* DetectionWorker.stop, called on the consumer thread *)

\* self.is_running = False
StopSetFlag ==
    /\ gui_pc = "idle"
    /\ is_running' = FALSE
    /\ gui_access' = gui_access \cup {"is_running"}
    /\ stop_mark' = Some(<<emitted["result"], polls>>)
    /\ gui_pc' = "stop_led"
    /\ UNCHANGED <<distance_threshold_cm, stats, previous_distance, led,
                   current_detection_state, valid_signal_times, pc, locals,
                   emitted, last_led_event, led_cmds, led_threads, config, obs>>
    /\ UNCHANGED <<frame, session, device>>

\* the fields of the worker the rest of stop() reads: led_state in its "if",
\* the counter in the print under it, valid_signal_count in the second "if"
\* and the statistics in the prints under that
StopReads ==
    {"led_state", "valid_signal_count"}
        \cup (IF led_state THEN {"led_timer_counter"} ELSE {})
        \cup (IF valid_signal_count > 0
              THEN {"total_signals_count", "broken_signals_count",
                    "human_detections", "non_human_detections",
                    "uncertain_detections"}
              ELSE {})

\* if self.led_state: self.rp_sensor.control_led7(turn_on=False)
StopLedOff ==
    /\ gui_pc = "stop_led"
    /\ IF led_state
       THEN control_led7(FALSE)
       ELSE UNCHANGED <<led_cmds, led_threads>>
    /\ gui_access' = gui_access \cup StopReads
    /\ gui_pc' = "stopped"
    /\ UNCHANGED <<stop_mark, is_running, distance_threshold_cm, stats,
                   previous_distance,
                   led, current_detection_state, valid_signal_times, pc, locals,
                   emitted, last_led_event, config, obs>>
    /\ UNCHANGED <<frame, session, device>>

----------------------------------------------------------------------------
(* MainWindow.set_threshold_handler and set_timer_handler, on the consumer
   thread, with the text of the input field *)

\* if value <= 0: ... return; if value > upper: ... return
InRangeChecks(value, upper) == ~FloatLe(value, 0) /\ ~FloatGt(value, upper)

\* float(text) succeeded, and the value passed both range checks
ThresholdAccepted(text) == text # None /\ InRangeChecks(Val(text), 100)
TimerAccepted(text) == text # None /\ InRangeChecks(Val(text), 300)

set_threshold_handler(text) ==
    /\ IF ThresholdAccepted(text)
       THEN /\ window_distance_threshold_cm' = Val(text)
            \* if self.worker: self.worker.distance_threshold_cm = ...
            /\ distance_threshold_cm' = Val(text)
            /\ gui_access' = gui_access \cup {"distance_threshold_cm"}
       ELSE UNCHANGED <<window_distance_threshold_cm, distance_threshold_cm,
                        gui_access>>
    /\ UNCHANGED <<stop_mark, is_running, stats, previous_distance, led,
                   current_detection_state, valid_signal_times, pc, locals,
                   emitted, last_led_event, led_cmds, led_threads, gui_pc,
                   window_led_timer_duration, settings_LED_TIMER_DURATION, obs>>
    /\ UNCHANGED <<frame, session, device>>

set_timer_handler(text) ==
    /\ IF TimerAccepted(text)
       THEN /\ window_led_timer_duration' = Val(text)
            \* settings.LED_TIMER_DURATION = timer_value; the name the worker
            \* module imported keeps the value it was imported with
            /\ settings_LED_TIMER_DURATION' = Val(text)
       ELSE UNCHANGED <<window_led_timer_duration, settings_LED_TIMER_DURATION>>
    /\ UNCHANGED <<is_running, distance_threshold_cm, stats, previous_distance,
                   led, current_detection_state, valid_signal_times, pc, locals,
                   emitted, last_led_event, led_cmds, led_threads, gui_pc,
                   gui_access, stop_mark,
                   window_distance_threshold_cm, obs>>
    /\ UNCHANGED <<frame, session, device>>

----------------------------------------------------------------------------
(* RedPitayaSensor.get_data_from_server *)

\* resolution of dmax_raw: the header float, in thousandths
DmaxScale == 10 * 100
\* dmax_raw values the device may send, in thousandths (metres below 10,
\* centimetres from 10 on)
RawDistances == {-5, 0, 4, 500, 506, 650, 9994, 9999, 10000, 10400, 10500,
                 10600, 65000, 65700}

\* self.buffer_size, in bytes, and the header_length the device announces
BufferSize == (SizeOfRawAdc + HEADER_FLOATS) * 4
HeaderLength == HEADER_FLOATS * 4
\* bytes after the header in one datagram that recv(self.buffer_size) returns
PayloadBytes == 0..(BufferSize - HeaderLength)
\* the block numbers a datagram may carry at bytes 60:64
BlockNumbers == 0..(MaxBlocks - 1)

\* int(x) of a quotient a / b with b > 0: truncation toward zero
IntOfQuotient(a, b) == IF a >= 0 THEN a \div b ELSE -((-a) \div b)

\* round(x) of a quotient a / b with b > 0: the nearest integer, a tie going
\* to the even one
RoundOfQuotient(a, b) ==
    LET fl == a \div b
        twice == 2 * (a - fl * b)
    IN  IF twice < b THEN fl
        ELSE IF twice > b THEN fl + 1
        ELSE IF fl % 2 = 0 THEN fl ELSE fl + 1

\* the correction with round() in the place of int()
CorrectDistance_Rounded(d) ==
    IF d < 10 * DmaxScale
    THEN RoundOfQuotient(d * 100, DmaxScale)
    ELSE RoundOfQuotient(d, DmaxScale)

\* if dmax_raw < 10: distance_cm = int(dmax_raw * 100)
\* else: distance_cm = int(dmax_raw)
CorrectDistance(d) ==
    IF d < 10 * DmaxScale
    THEN IntOfQuotient(d * 100, DmaxScale)
    ELSE IntOfQuotient(d, DmaxScale)

RECURSIVE SumSeq(_)
\* sum(len(block) for block in ultrasonic_data)
SumSeq(q) == IF q = <<>> THEN 0 ELSE Head(q) + SumSeq(Tail(q))

\* the length test dropped: any data at all passes
FrameIsShort_EmptyOnly(data, blocks) == data = <<>>

\* if not ultrasonic_data or sum(...) != self.size_of_raw_adc * self.total_data_blocks
FrameIsShort(data, blocks) ==
    data = <<>> \/ SumSeq(data) # SizeOfRawAdc * blocks

\* (None, None, None)
BrokenReading == [header |-> FALSE, data |-> None, distance |-> None]

\* the call begins: the for loop runs total_data_blocks times
FrameBegins ==
    /\ total_data_blocks \in 0..MaxBlocks
    /\ block_i = 0
    /\ ultrasonic_data = <<>>
    /\ header = FALSE
    /\ dmax_raw = None
    /\ distance_cm = None
    /\ frame_pc = IF total_data_blocks = 0 THEN "check" ELSE "loop"
    /\ frame_ret = None
    /\ mismatch_at = None
    /\ signal = None
    /\ requests = 0
    /\ replies = 0

\* the top of one pass of the for loop: self.msg_from_client = "-a 1";
\* self.send_msg_to_server()
SendRequest ==
    /\ frame_pc = "loop"
    /\ requests' = requests + 1
    /\ frame_pc' = "recv"
    /\ UNCHANGED <<total_data_blocks, block_i, ultrasonic_data, header,
                   dmax_raw, distance_cm, frame_ret, mismatch_at, signal,
                   replies>>
    /\ UNCHANGED <<is_running, distance_threshold_cm, stats, previous_distance,
                   led, current_detection_state, valid_signal_times, pc, locals,
                   emitted, last_led_event, led_cmds, led_threads, device,
                   gui_pc, gui_access, stop_mark, config, obs, session>>

\* the loop asking again for the block that came out of sequence
AfterMismatch_Continues == "loop"

\* if i != current_data_block_number: print(...); break
AfterMismatch == "check"

\* the rest of the pass: recv returns the datagram that carries block number
\* number, bytes payload bytes and, in its header, dmax_raw d
RecvBlock(number, bytes, d) ==
    /\ frame_pc = "recv"
    /\ replies' = replies + 1
    /\ IF block_i = 0
       THEN /\ header' = TRUE
            /\ dmax_raw' = Some(d)
            /\ distance_cm' = Some(CorrectDistance(d))
       ELSE UNCHANGED <<header, dmax_raw, distance_cm>>
    /\ IF block_i # number
       THEN \* break
            /\ mismatch_at' = Some(block_i)
            /\ frame_pc' = AfterMismatch
            /\ UNCHANGED <<block_i, ultrasonic_data>>
       ELSE IF bytes % 2 # 0
       THEN \* np.frombuffer(data_bytes, dtype=np.int16) raises ValueError
            /\ frame_pc' = "raised"
            /\ UNCHANGED <<block_i, ultrasonic_data, mismatch_at>>
       ELSE /\ ultrasonic_data' = Append(ultrasonic_data, bytes \div 2)
            /\ block_i' = block_i + 1
            /\ frame_pc' = IF block_i + 1 < total_data_blocks
                           THEN "loop" ELSE "check"
            /\ UNCHANGED mismatch_at
    /\ UNCHANGED <<total_data_blocks, frame_ret, signal, requests>>
    /\ UNCHANGED <<is_running, distance_threshold_cm, stats, previous_distance,
                   led, current_detection_state, valid_signal_times, pc, locals,
                   emitted, last_led_event, led_cmds, led_threads, device,
                   gui_pc, gui_access, stop_mark, config, obs, session>>

\* the length test after the loop, and the return
FrameReturn ==
    /\ frame_pc = "check"
    /\ frame_ret' =
           IF FrameIsShort(ultrasonic_data, total_data_blocks)
           THEN Some(BrokenReading)
           ELSE Some([header |-> header,
                      data |-> Some(SumSeq(ultrasonic_data)),
                      distance |-> distance_cm])
    /\ frame_pc' = "returned"
    /\ UNCHANGED <<total_data_blocks, block_i, ultrasonic_data, header,
                   dmax_raw, distance_cm, mismatch_at, signal, requests,
                   replies>>
    /\ UNCHANGED <<is_running, distance_threshold_cm, stats, previous_distance,
                   led, current_detection_state, valid_signal_times, pc, locals,
                   emitted, last_led_event, led_cmds, led_threads, device,
                   gui_pc, gui_access, stop_mark, config, obs, session>>

\* DetectionWorker.run: if data is None or header is None: ... continue;
\* otherwise the reading is processed and result['signal'] = data
CheckData ==
    /\ frame_pc = "returned"
    /\ IF Val(frame_ret).data = None \/ ~Val(frame_ret).header
       THEN /\ frame_pc' = "broken"
            /\ UNCHANGED signal
       ELSE /\ frame_pc' = "valid"
            /\ signal' = Val(frame_ret).data
    /\ UNCHANGED <<total_data_blocks, block_i, ultrasonic_data, header,
                   dmax_raw, distance_cm, frame_ret, mismatch_at, requests,
                   replies>>
    /\ UNCHANGED <<is_running, distance_threshold_cm, stats, previous_distance,
                   led, current_detection_state, valid_signal_times, pc, locals,
                   emitted, last_led_event, led_cmds, led_threads, device,
                   gui_pc, gui_access, stop_mark, config, obs, session>>

----------------------------------------------------------------------------
(* RedPitayaSensor._control_led7_async: the thread of one LED command *)

\* a sequence without its k-th element
RemoveAt(q, k) == SubSeq(q, 1, k - 1) \o SubSeq(q, k + 1, Len(q))

\* the failure written back into the worker's LED state
FailureHandled_Reverts(turn_on) ==
    /\ led_state' = ~turn_on
    /\ UNCHANGED <<led_timer_counter, last_counter_update_time>>

\* except Exception as e: print(f"Failed to control LED7: {e}")
FailureHandled(turn_on) == UNCHANGED led

\* give_ssh_command(command) of the k-th thread in flight succeeds: the LED
\* of the device takes the commanded state.  Threads run in any order.
LedThreadSucceed(k) ==
    /\ k \in DOMAIN led_threads
    /\ led_physical' = led_threads[k]
    /\ led_threads' = RemoveAt(led_threads, k)
    /\ UNCHANGED <<is_running, distance_threshold_cm, stats, previous_distance,
                   led, current_detection_state, valid_signal_times, pc, locals,
                   emitted, last_led_event, led_cmds, led_failed, gui_pc,
                   gui_access, stop_mark, config, obs, frame, session>>

\* give_ssh_command raises in the k-th thread in flight (connect refused,
\* the session closed under it, ...): the except clause of the thread
LedThreadFail(k) ==
    /\ k \in DOMAIN led_threads
    /\ led_failed' = TRUE
    /\ FailureHandled(led_threads[k])
    /\ led_threads' = RemoveAt(led_threads, k)
    /\ UNCHANGED <<is_running, distance_threshold_cm, stats, previous_distance,
                   current_detection_state, valid_signal_times, pc, locals,
                   emitted, last_led_event, led_cmds, led_physical, gui_pc,
                   gui_access, stop_mark, config, obs, frame, session>>

----------------------------------------------------------------------------
(* MainWindow.start_sensor_btn_handler and stop_sensor_btn_handler on the
   consumer thread, and the loops of the workers they start, each on a
   thread of the pool *)

\* the one worker of the other specifications, its link and its device
rest == <<is_running, distance_threshold_cm, stats, previous_distance, led,
          current_detection_state, valid_signal_times, pc, locals, emitted,
          last_led_event, led_cmds, led_threads, gui_pc, gui_access,
          stop_mark, config, obs, frame, device>>

\* DetectionWorker(...) handed to self.threadpool.start
NewWorker == [is_running |-> TRUE, pc |-> "queued"]

\* the workers whose run is on a thread of the pool
Running == {k \in DOMAIN workers : workers[k].pc \in {"top", "poll", "body"}}

\* the workers inside get_data_from_server
Polling == {k \in DOMAIN workers : workers[k].pc = "poll"}

\* the start button pressed: if self.detector is None: ... return
StartPressed ==
    /\ start_pc = "idle"
    /\ starts < MaxStarts
    /\ starts' = starts + 1
    /\ start_pc' = IF detector THEN "ssh" ELSE "idle"
    /\ UNCHANGED <<detector, workers, window_worker, handshake_done,
                   start_errors>>
    /\ UNCHANGED rest

\* the handler going on to the next statement after an exception
AfterStartRaise_Continues == "create"

\* except Exception as e: the error is shown and the handler returns
AfterStartRaise == "idle"

\* self.rp_sensor.give_ssh_command(full_command) returns, or raises
StartSsh(raises) ==
    /\ start_pc = "ssh"
    /\ IF raises
       THEN /\ start_pc' = AfterStartRaise
            /\ start_errors' = start_errors + 1
       ELSE /\ start_pc' = "handshake"
            /\ UNCHANGED start_errors
    /\ UNCHANGED <<detector, workers, window_worker, handshake_done, starts>>
    /\ UNCHANGED rest

\* self.rp_sensor.get_data_info_from_server() returns with header_length
\* and total_data_blocks set, or raises: in send or recv, or in an unpack
\* before (fields_set false) or after the two fields were assigned
StartHandshake(raises, fields_set) ==
    /\ start_pc = "handshake"
    /\ IF raises
       THEN /\ start_pc' = AfterStartRaise
            /\ start_errors' = start_errors + 1
            /\ handshake_done' = (handshake_done \/ fields_set)
       ELSE /\ start_pc' = "create"
            /\ handshake_done' = TRUE
            /\ UNCHANGED start_errors
    /\ UNCHANGED <<detector, workers, window_worker, starts>>
    /\ UNCHANGED rest

\* self.worker = DetectionWorker(...); self.threadpool.start(self.worker)
StartCreate ==
    /\ start_pc = "create"
    /\ workers' = Append(workers, NewWorker)
    /\ window_worker' = Len(workers) + 1
    /\ start_pc' = "idle"
    /\ UNCHANGED <<detector, handshake_done, starts, start_errors>>
    /\ UNCHANGED rest

\* the stop button pressed: if self.worker: self.worker.stop()
StopPressed ==
    /\ start_pc = "idle"
    /\ window_worker # 0
    /\ workers[window_worker].is_running
    /\ workers' = [workers EXCEPT ![window_worker].is_running = FALSE]
    /\ UNCHANGED <<detector, start_pc, window_worker, handshake_done, starts,
                   start_errors>>
    /\ UNCHANGED rest

\* the pool has a free thread and calls run of the k-th worker
WorkerRun(k) ==
    /\ workers[k].pc = "queued"
    /\ Cardinality(Running) < MaxThreadCount
    /\ workers' = [workers EXCEPT ![k].pc = "top"]
    /\ UNCHANGED <<detector, start_pc, window_worker, handshake_done, starts,
                   start_errors>>
    /\ UNCHANGED rest

\* while self.is_running: of the k-th worker
WorkerTop(k) ==
    /\ workers[k].pc = "top"
    /\ workers' = [workers EXCEPT
                      ![k].pc = IF workers[k].is_running THEN "poll" ELSE "done"]
    /\ UNCHANGED <<detector, start_pc, window_worker, handshake_done, starts,
                   start_errors>>
    /\ UNCHANGED rest

\* get_data_from_server of the k-th worker returns or raises
WorkerPoll(k) ==
    /\ workers[k].pc = "poll"
    /\ workers' = [workers EXCEPT ![k].pc = "body"]
    /\ UNCHANGED <<detector, start_pc, window_worker, handshake_done, starts,
                   start_errors>>
    /\ UNCHANGED rest

\* the rest of the iteration of the k-th worker
WorkerBody(k) ==
    /\ workers[k].pc = "body"
    /\ workers' = [workers EXCEPT ![k].pc = "top"]
    /\ UNCHANGED <<detector, start_pc, window_worker, handshake_done, starts,
                   start_errors>>
    /\ UNCHANGED rest

----------------------------------------------------------------------------
Next ==
    \/ LoopTop
    \/ \E q \in NoTime : PollRaise(q)
    \/ \E q \in PollTimes : PollBroken(q)
    \/ \E q \in PollTimes, d \in Distances : PollValid(q, d)
    \/ ActivityStep
    \/ \E v \in Predictions, p \in ProcTimes : Classify(v, p)
    \/ \E p \in NoTime : ClassifyRaise(p)
    \/ TimerStep
    \/ RateAndEmit
    \/ Throttle
    \/ Except
    \/ Finally
    \/ StopSetFlag
    \/ StopLedOff

\* One run of the worker's loop, with the consumer's stop command.
Spec == Init /\ [][Next]_vars

\* The loop alone with a healthy link and classifier and a still scene, with
\* the durations of polls and predict calls drawn from the finer sets.
NextRate ==
    \/ LoopTop
    \/ \E q \in FinePollTimes : PollBroken(q)
    \/ \E q \in FinePollTimes, d \in StillDistances : PollValid(q, d)
    \/ ActivityStep
    \/ \E v \in Predictions, p \in FineProcTimes : Classify(v, p)
    \/ TimerStep
    \/ RateAndEmit
    \/ Throttle
    \/ Finally

SpecRate == Init /\ [][NextRate]_vars

\* The loop alone with a healthy link and classifier, while the consumer
\* changes the threshold and the timer duration.
NextConfig ==
    \/ LoopTop
    \/ \E q \in NoTime : PollBroken(q)
    \/ \E q \in ConfigPollTimes, d \in Distances : PollValid(q, d)
    \/ ActivityStep
    \/ \E v \in Predictions, p \in NoTime : Classify(v, p)
    \/ TimerStep
    \/ RateAndEmit
    \/ Throttle
    \/ Finally
    \/ \E text \in ThresholdInputs : set_threshold_handler(text)
    \/ \E text \in TimerInputs : set_timer_handler(text)

SpecConfig == Init /\ [][NextConfig]_vars

\* One get_data_from_server call, for every number of blocks announced and
\* every datagram the receive buffer admits, and the worker's test of what
\* the call returned.
NextFrame ==
    \/ SendRequest
    \/ \E number \in BlockNumbers, bytes \in PayloadBytes, d \in RawDistances :
           RecvBlock(number, bytes, d)
    \/ FrameReturn
    \/ CheckData

InitFrame == InitWorker /\ FrameBegins /\ SessionIdle

SpecFrame == InitFrame /\ [][NextFrame]_vars

\* The loop alone with a healthy link and classifier, while the consumer
\* submits every kind of text to the threshold and the timer fields.
NextValidate ==
    \/ LoopTop
    \/ \E q \in NoTime : PollBroken(q)
    \/ \E q \in NoTime, d \in Distances : PollValid(q, d)
    \/ ActivityStep
    \/ \E v \in Predictions, p \in NoTime : Classify(v, p)
    \/ TimerStep
    \/ RateAndEmit
    \/ Throttle
    \/ Finally
    \/ \E text \in ThresholdTexts : set_threshold_handler(text)
    \/ \E text \in TimerTexts : set_timer_handler(text)

SpecValidate == Init /\ [][NextValidate]_vars

\* The loop alone with a healthy link and classifier, fed readings with and
\* without a distance.
NextActivity ==
    \/ LoopTop
    \/ \E q \in NoTime, dist \in ReadingDistances : PollReading(q, dist)
    \/ ActivityStep
    \/ \E v \in Predictions, p \in NoTime : Classify(v, p)
    \/ TimerStep
    \/ RateAndEmit
    \/ Throttle
    \/ Finally

SpecActivity == Init /\ [][NextActivity]_vars

\* The loop alone with a healthy link and classifier and a still scene, for
\* enough polls to fill the rate window and go past its length.
NextWindow ==
    \/ LoopTopUpTo(MaxWindowPolls)
    \/ \E q \in NoTime : PollBroken(q)
    \/ \E q \in FinePollTimes, d \in StillDistances : PollValid(q, d)
    \/ ActivityStep
    \/ \E v \in StillPredictions, p \in NoTime : Classify(v, p)
    \/ TimerStep
    \/ RateAndEmit
    \/ Throttle
    \/ Finally

SpecWindow == Init /\ [][NextWindow]_vars

\* The consumer pressing start and stop, in any order, with the remote
\* command and the handshake succeeding or raising, and the loops of the
\* workers the pool runs.
NextStart ==
    \/ StartPressed
    \/ \E raises \in BOOLEAN : StartSsh(raises)
    \/ \E raises, fields_set \in BOOLEAN : StartHandshake(raises, fields_set)
    \/ StartCreate
    \/ StopPressed
    \/ \E k \in DOMAIN workers : WorkerRun(k)
    \/ \E k \in DOMAIN workers : WorkerTop(k)
    \/ \E k \in DOMAIN workers : WorkerPoll(k)
    \/ \E k \in DOMAIN workers : WorkerBody(k)

InitStart == InitWorker /\ FrameIdle /\ SessionBegins

SpecStart == InitStart /\ [][NextStart]_vars

\* every step of the loop, each call returning or raising at once
StopWorkerStep ==
    \/ LoopTop
    \/ \E q \in NoTime : PollRaise(q)
    \/ \E q \in NoTime : PollBroken(q)
    \/ \E q \in NoTime, d \in Distances : PollValid(q, d)
    \/ ActivityStep
    \/ \E v \in Predictions, p \in NoTime : Classify(v, p)
    \/ \E p \in NoTime : ClassifyRaise(p)
    \/ TimerStep
    \/ RateAndEmit
    \/ Throttle
    \/ Except
    \/ Finally

NextStop ==
    \/ StopWorkerStep
    \/ StopSetFlag
    \/ StopLedOff

\* The loop and the consumer's stop command, with the worker's thread kept
\* running by the thread pool and every call of the loop returning: a step
\* of the loop that can be taken is taken.
SpecStop == Init /\ [][NextStop]_vars /\ WF_vars(StopWorkerStep)

\* the steps of the loop with a healthy link and classifier
WorkerStep ==
    \/ LoopTop
    \/ \E q \in PollTimes, d \in Distances : PollValid(q, d)
    \/ ActivityStep
    \/ \E v \in Predictions, p \in NoTime : Classify(v, p)
    \/ TimerStep
    \/ RateAndEmit
    \/ Throttle
    \/ Finally

\* The loop and the consumer's stop command, with the threads of the LED
\* commands running beside them: each in flight until its remote command
\* succeeds or fails, in any order, or for ever.
NextLed ==
    \/ LoopTop
    \/ \E q \in PollTimes, d \in Distances : PollValid(q, d)
    \/ ActivityStep
    \/ \E v \in Predictions, p \in NoTime : Classify(v, p)
    \/ TimerStep
    \/ RateAndEmit
    \/ Throttle
    \/ Finally
    \/ StopSetFlag
    \/ StopLedOff
    \/ \E k \in DOMAIN led_threads : LedThreadSucceed(k)
    \/ \E k \in DOMAIN led_threads : LedThreadFail(k)

SpecLed == Init /\ [][NextLed]_vars

----------------------------------------------------------------------------
(* The claims *)

\* the activity step / the timer step of run is being taken
ActivityStepTaken == pc = "activity" /\ pc' = "classify"
TimerStepTaken == pc = "timer" /\ pc' = "rate"

\* C1: when the LED is Off and a valid reading produces an activity event, the
\* activity step sets led_state to On, sets the counter to 0, records the
\* timestamp baseline and issues exactly one setLed(true) command.
C1_OffToOnEntry ==
    [][(ActivityStepTaken /\ ~led_state /\ activity_detected')
        => /\ led_state' = TRUE
           /\ led_timer_counter' = 0
           /\ last_counter_update_time' = Some(0)
           /\ led_cmds' = Append(led_cmds, TRUE)]_vars

\* the first activity event has just turned the LED on
C1_Witness ==
    /\ pc = "classify"
    /\ activity_detected
    /\ activity_count = 1
    /\ led_state
    /\ led_cmds = <<TRUE>>

\* C2: while the LED is On, a tick whose verdict is Positive never turns the
\* LED Off, never issues setLed(false) and leaves the counter at 0, whether or
\* not the advanced counter had reached the duration.
C2_PositiveKeepsOn ==
    [][(TimerStepTaken /\ led_state /\ prediction = Some(1))
        => /\ led_state' = TRUE
           /\ led_cmds' = led_cmds
           /\ led_timer_counter' = 0]_vars

\* a Positive tick found the counter at or above the duration and reset it
C2_Witness ==
    /\ pc = "rate"
    /\ prediction = Some(1)
    /\ last_led_event = Some(<<TRUE, "TIMER_RESET_15S">>)
    /\ led_state
    /\ led_timer_counter = 0

\* the counter of this tick after it was advanced by the time since the last
\* update
C3_Advanced ==
    IF last_counter_update_time = None
    THEN led_timer_counter
    ELSE led_timer_counter + Val(last_counter_update_time)

\* the timer step, with the duration in seconds that a tick is held against
TimerTick(duration) ==
    /\ (TimerStepTaken /\ led_state)
           => /\ (led_state' = FALSE)
                    <=> (prediction # Some(1)
                         /\ C3_Advanced >= duration * TicksPerSecond)
              /\ (led_state' = FALSE)
                    => /\ led_cmds' = Append(led_cmds, FALSE)
                       /\ led_timer_counter' = 0
                       /\ last_counter_update_time' = None
              /\ (prediction # Some(1) /\ led_state' = TRUE)
                    => /\ led_timer_counter' = C3_Advanced
                       /\ led_cmds' = led_cmds
    /\ (led_state /\ ~led_state') => TimerStepTaken

\* C3: while the LED is On, a tick turns it Off iff its verdict is Negative or
\* Uncertain and the advanced counter is >= the configured duration, never
\* before; on that transition setLed(false) is issued once, the counter is
\* reset to 0 and the baseline is cleared; a Negative/Uncertain tick below
\* the duration leaves the LED On with the accumulated counter.  The
\* configured duration is the one set_timer_handler stored last.
C3_OffIffExpiredNegative ==
    [][TimerTick(settings_LED_TIMER_DURATION)]_vars

\* the same tick held against the duration the worker module imported: this
\* is what the loop does, whatever the consumer configured since
TickAgainstImportedDuration ==
    [][TimerTick(LED_TIMER_DURATION)]_vars

\* a Negative tick has just turned the LED off
C3_Witness ==
    /\ pc = "rate"
    /\ ~led_state
    /\ prediction = Some(0)
    /\ last_led_event = Some(<<FALSE, "NON_HUMAN">>)
    /\ led_cmds = <<TRUE, FALSE>>
    /\ led_timer_counter = 0
    /\ last_counter_update_time = None

\* C4: the LED goes Off -> On only in the activity step of an iteration whose
\* reading produced an activity event; every step that finds and leaves the
\* LED Off leaves the counter and the baseline unchanged and issues no LED
\* command, whatever the verdict.
C4_OffIsNoOp ==
    [][/\ (~led_state /\ led_state')
           => (ActivityStepTaken /\ activity_detected')
       /\ (~led_state /\ ~led_state')
           => UNCHANGED <<led_timer_counter, last_counter_update_time,
                          led_cmds>>]_vars

\* a valid reading without activity, classified HUMAN, has passed the timer
\* step with the LED never turned on
C4_Witness ==
    /\ pc = "rate"
    /\ ~led_state
    /\ ~activity_detected
    /\ prediction = Some(1)
    /\ valid_signal_count >= 2
    /\ led_cmds = <<>>
    /\ led_timer_counter = 0
    /\ last_counter_update_time = None

\* C5: the activity step reports detected iff a previous distance exists and
\* |current - previous| is strictly greater than the threshold, never on the
\* first reading; the activity counter grows by one on each detected event
\* and in no other step.
C5_ActivityIffAboveThreshold ==
    [][/\ ActivityStepTaken
           => /\ activity_detected'
                    <=> /\ previous_distance # None
                        /\ Abs(Val(distance) - Val(previous_distance))
                               > distance_threshold_cm
              /\ valid_signal_count = 1 => ~activity_detected'
              /\ activity_count' =
                     activity_count + (IF activity_detected' THEN 1 ELSE 0)
       /\ ~ActivityStepTaken => activity_count' = activity_count]_vars

\* distances 50, 50, 65 with threshold 10: activity on the 3rd reading only
C5_Witness ==
    /\ pc = "classify"
    /\ distance_threshold_cm = DEFAULT_DISTANCE_THRESHOLD_CM
    /\ valid_signal_count = 3
    /\ broken_signals_count = 0
    /\ distance = Some(65)
    /\ distance_change = 15
    /\ activity_detected
    /\ activity_count = 1
    /\ led_state

\* the last control_led7 call made was the given command
LastLedCommandIs(turn_on) ==
    led_cmds # <<>> /\ led_cmds[Len(led_cmds)] = turn_on

\* C6: stop guarantees the LED-off cleanup: once stop() has returned and the
\* loop has exited, it is not the case that led_state is On with no
\* setLed(false) issued after the last setLed(true).
C6_StopLeavesLedOff ==
    (pc = "done" /\ gui_pc = "stopped")
        => ~(led_state /\ LastLedCommandIs(TRUE))

\* C7: a socket-level error raised by get_data_from_server is not retried: the
\* loop does not poll again, and when it has exited an error notification has
\* been delivered.
C7_LinkErrorIsTerminal ==
    link_error => /\ pc # "poll"
                  /\ pc = "done" => emitted["error"] > 0

\* C8: the rate-control sleep is executed only in iterations whose reading was
\* valid; a broken reading never causes the loop to sleep.
C8_SleepOnlyAfterValid == slept => data_valid

\* after a valid reading was throttled, a broken reading led straight to the
\* next poll
C8_Witness ==
    /\ pc = "poll"
    /\ ~data_valid
    /\ ~slept
    /\ broken_signals_count = 1
    /\ valid_signal_count = 1
    /\ total_signals_count = 2
    /\ sleep_time = SIGNAL_DELAY

\* the step of run in which get_data_from_server returned a broken reading
BrokenPollTaken == pc = "poll" /\ pc' \notin {"poll", "except"} /\ ~data_valid'

\* what a broken reading must leave alone
C9_Frame ==
    /\ UNCHANGED <<led_state, led_timer_counter, valid_signal_count,
                   human_detections, non_human_detections,
                   uncertain_detections, activity_count>>
    /\ emitted'["result"] = emitted["result"]
    /\ \E dt \in PollTimes : valid_signal_times' = AgedAll(valid_signal_times, dt)

\* C9: a broken reading increments the total and the broken counter by one
\* each, emits one broken-count notification and no DetectionResult, and
\* leaves the LED state, the LED counter, the valid count, the per-label
\* counts, the activity count and the rate window unchanged, in the poll step
\* and in the rest of its iteration.
C9_BrokenReadingFrame ==
    [][/\ BrokenPollTaken
           => /\ total_signals_count' = total_signals_count + 1
              /\ broken_signals_count' = broken_signals_count + 1
              /\ emitted'["broken_signals_count_updated"] =
                     emitted["broken_signals_count_updated"] + 1
              /\ C9_Frame
       /\ (~data_valid /\ pc # "poll")
           => /\ C9_Frame
              /\ UNCHANGED <<total_signals_count, broken_signals_count>>
              /\ emitted'["broken_signals_count_updated"] =
                     emitted["broken_signals_count_updated"]]_vars

\* a broken reading was counted while the LED was on and readings were in
\* the rate window
C9_Witness ==
    /\ pc = "finally"
    /\ ~data_valid
    /\ broken_signals_count = 1
    /\ emitted["broken_signals_count_updated"] = 1
    /\ valid_signal_count = 2
    /\ emitted["result"] = 2
    /\ Len(valid_signal_times) = 2
    /\ led_state

\* C10: when the previous valid reading was processed in less than
\* the delay, the time between its start mark and the next valid reading's
\* equals the delay.
C10_IntervalEqualsDelay ==
    (interval # None /\ elapsed < SIGNAL_DELAY)
        => Val(interval) = SIGNAL_DELAY

\* what the loop does instead: the start mark is taken after the poll has
\* returned, so that time equals the delay plus the duration of the poll that
\* delivered the second reading; throttle suspends the loop for exactly the
\* delay minus the processing time, and not at all when the processing took
\* the delay or longer.
IntervalIsDelayPlusPoll ==
    /\ (interval # None /\ elapsed < SIGNAL_DELAY)
           => Val(interval) = SIGNAL_DELAY + poll_time
    /\ (pc = "finally" /\ gap_clean)
           => IF elapsed < SIGNAL_DELAY
              THEN /\ slept
                   /\ sleep_time = SIGNAL_DELAY - elapsed
                   /\ Val(valid_signal_start_time) = elapsed + sleep_time
              ELSE /\ ~slept
                   /\ Val(valid_signal_start_time) = elapsed

\* a reading processed for one tick and throttled for the rest of the delay,
\* and the next valid reading delivered by a poll of one tick
C10_Witness ==
    /\ interval = Some(SIGNAL_DELAY + 1)
    /\ poll_time = 1
    /\ elapsed = 1
    /\ sleep_time = SIGNAL_DELAY - 1

\* C11: get_data_from_server returns (None, None, None) whenever the block
\* number of a received datagram differs from its expected position, for
\* every position of the mismatch and every size of the blocks before it.
C11_MismatchReturnsBroken ==
    (frame_ret # None /\ mismatch_at # None)
        => Val(frame_ret) = BrokenReading

\* a mismatch at the second position, after one full block, returned as broken
C11_Witness ==
    /\ frame_pc = "broken"
    /\ mismatch_at = Some(1)
    /\ ultrasonic_data = <<SizeOfRawAdc>>
    /\ frame_ret = Some(BrokenReading)

\* C12: every frame returned as valid has exactly total_data_blocks x
\* size_of_raw_adc samples, a call whose concatenated sample count differs
\* from that product returns None, and the signal of a DetectionResult has
\* the full length.
C12_ValidFrameIsFull ==
    /\ frame_ret # None
           => /\ Val(frame_ret).data # None
                    => Val(Val(frame_ret).data) =
                           SizeOfRawAdc * total_data_blocks
              /\ SumSeq(ultrasonic_data) # SizeOfRawAdc * total_data_blocks
                    => Val(frame_ret) = BrokenReading
    /\ signal # None => Val(signal) = SizeOfRawAdc * total_data_blocks

\* two full blocks of a two-block frame were returned and handed on
C12_Witness ==
    /\ frame_pc = "valid"
    /\ total_data_blocks = 2
    /\ ultrasonic_data = <<SizeOfRawAdc, SizeOfRawAdc>>
    /\ signal = Some(2 * SizeOfRawAdc)

\* C13: for every raw value d < 10 the distance in cm is round(d x 100), and
\* for every d >= 10 it is round(d).
C13_DistanceIsRounded ==
    distance_cm # None
        => Val(distance_cm) =
               IF Val(dmax_raw) < 10 * DmaxScale
               THEN RoundOfQuotient(Val(dmax_raw) * 100, DmaxScale)
               ELSE RoundOfQuotient(Val(dmax_raw), DmaxScale)

\* the value the correction scales: d x 100 below 10, d from 10 on, in
\* thousandths
C13_Scaled ==
    IF Val(dmax_raw) < 10 * DmaxScale THEN Val(dmax_raw) * 100 ELSE Val(dmax_raw)

\* C13, amended: the distance in cm is d x 100 (d < 10) or d (d >= 10) with
\* its fractional part dropped: the integer nearest to it that is not
\* further from zero.
C13_DistanceIsTruncated ==
    distance_cm # None
        => /\ C13_Scaled >= 0
                 => /\ Val(distance_cm) * DmaxScale <= C13_Scaled
                    /\ C13_Scaled < (Val(distance_cm) + 1) * DmaxScale
           /\ C13_Scaled < 0
                 => /\ Val(distance_cm) * DmaxScale >= C13_Scaled
                    /\ C13_Scaled > (Val(distance_cm) - 1) * DmaxScale

\* 0.506 m, that is 50.6 cm, became 50 cm
C13_Witness ==
    /\ dmax_raw = Some(506)
    /\ distance_cm = Some(50)
    /\ frame_pc = "valid"

\* C14: all statistics counters are non-decreasing and updated before the
\* result is emitted, and the k-th DetectionResult emitted carries
\* valid_count = k and a total equal to the number of polls completed so far,
\* also after iterations in which classification or another step raised.
C14_ResultCountsMatchPosition ==
    [][/\ total_signals_count' >= total_signals_count
       /\ broken_signals_count' >= broken_signals_count
       /\ valid_signal_count' >= valid_signal_count
       /\ human_detections' >= human_detections
       /\ non_human_detections' >= non_human_detections
       /\ uncertain_detections' >= uncertain_detections
       /\ activity_count' >= activity_count
       /\ emitted'["result"] = emitted["result"] + 1
             => /\ UNCHANGED stats
                /\ valid_signal_count = emitted'["result"]
                /\ ~link_error => total_signals_count = polls]_vars

\* the second result was emitted after one broken reading, as the result of
\* the third poll
C14_Witness ==
    /\ pc = "throttle"
    /\ emitted["result"] = 2
    /\ valid_signal_count = 2
    /\ broken_signals_count = 1
    /\ total_signals_count = 3
    /\ polls = 3

\* C15: after the consumer has set a new valid duration through
\* set_timer_handler while the worker runs, every later LED timer comparison
\* of the loop uses the new duration: a HUMAN tick reports the reset at the
\* duration, and a NON-HUMAN or UNCERTAIN tick turns the LED off, exactly
\* when the advanced counter has reached the duration the window holds.
C15_ComparisonUsesConfigured ==
    [][(TimerStepTaken /\ led_state)
          => LET reached ==
                     C3_Advanced >= window_led_timer_duration * TicksPerSecond
             IN  /\ prediction = Some(1)
                       => (last_led_event' = Some(<<TRUE, "TIMER_RESET_15S">>)
                              <=> reached)
                 /\ prediction # Some(1)
                       => (led_state' = FALSE <=> reached)]_vars

\* a tick was taken with the LED on after the duration was set to 20 s
C15_Witness ==
    /\ pc = "rate"
    /\ window_led_timer_duration = 20
    /\ settings_LED_TIMER_DURATION = 20
    /\ led_state
    /\ led_timer_counter > 0

\* a configuration value is a number in (0, upper]
C16_InRange(value, upper) == value # NaN /\ value > 0 /\ value <= upper

\* C16: after any sequence of set_threshold_handler and set_timer_handler
\* calls with arbitrary inputs the threshold held by the worker is in
\* (0, 100] and the timer duration in (0, 300]; a rejected input leaves the
\* window's and the worker's configuration unchanged, so a configuration
\* value changes only to a value in its range, and the worker's threshold
\* only together with the window's.
C16_ConfigurationStaysValid ==
    [][/\ C16_InRange(distance_threshold_cm', 100)
       /\ C16_InRange(window_distance_threshold_cm', 100)
       /\ C16_InRange(window_led_timer_duration', 300)
       /\ C16_InRange(settings_LED_TIMER_DURATION', 300)
       /\ distance_threshold_cm' # distance_threshold_cm
             => distance_threshold_cm' = window_distance_threshold_cm'
       /\ window_led_timer_duration' # window_led_timer_duration
             => settings_LED_TIMER_DURATION' = window_led_timer_duration']_vars

\* the largest values of both ranges were accepted and reached the worker
\* and the settings module
C16_Witness ==
    /\ distance_threshold_cm = 100
    /\ window_distance_threshold_cm = 100
    /\ window_led_timer_duration = 300
    /\ settings_LED_TIMER_DURATION = 300
    /\ "distance_threshold_cm" \in gui_access

\* a thread of an LED command ends
LedThreadEnds == Len(led_threads') < Len(led_threads)

\* the loop has a next step to take in the model: it has not exited, and it
\* is not at the bound on the polls of one run
C17_LoopHasWork == pc # "done" /\ ~(pc = "top" /\ is_running /\ polls >= MaxPolls)

\* C17: control_led7 returns to its caller without waiting for the remote
\* command to start or complete: after the call the command is in flight and
\* the LED of the device is as it was; and while commands are in flight, for
\* however long, the loop's next step can occur.
C17_LedCommandNeverAwaited ==
    [][/\ led_cmds' # led_cmds
             => /\ led_threads' =
                       Append(led_threads, led_cmds'[Len(led_cmds')])
                /\ UNCHANGED device
       /\ (led_threads # <<>> /\ C17_LoopHasWork) => ENABLED WorkerStep]_vars

\* the third poll has returned while the command that turned the LED on at
\* the second reading is still in flight
C17_Witness ==
    /\ pc = "activity"
    /\ polls = 3
    /\ led_state
    /\ led_cmds = <<TRUE>>
    /\ led_threads = <<TRUE>>
    /\ ~led_physical

\* C18: failure of a remote LED command does not affect LED state tracking:
\* the end of a command's thread, by success or by failure, leaves led_state,
\* the counter, the commands issued and every other variable of the loop as
\* they are, and puts the loop nowhere else (no error reaches it).
C18_CommandOutcomeLeavesLoopAlone ==
    [][LedThreadEnds
          => UNCHANGED <<is_running, distance_threshold_cm, stats,
                         previous_distance, led, current_detection_state,
                         valid_signal_times, pc, locals, emitted,
                         last_led_event, led_cmds, link_error>>]_vars

\* the command that turned the LED on has failed; the loop went on and
\* tracks the LED as on
C18_Witness ==
    /\ led_failed
    /\ led_threads = <<>>
    /\ led_cmds = <<TRUE>>
    /\ led_state
    /\ ~led_physical
    /\ pc = "rate"
    /\ emitted["error"] = 0

\* C19: when every remote command succeeds, once all dispatched LED command
\* threads have completed the LED of the device equals the value of the last
\* command issued.
C19_PhysicalLedIsLastCommand ==
    (led_threads = <<>> /\ ~led_failed /\ led_cmds # <<>>)
        => led_physical = led_cmds[Len(led_cmds)]

\* one command, completed: the LED of the device is on as commanded
C19_Witness ==
    /\ led_threads = <<>>
    /\ ~led_failed
    /\ led_cmds = <<TRUE>>
    /\ led_physical

\* the worker's mutable loop state: statistics, LED state and counter,
\* previous distance, threshold
C20_LoopState ==
    {"total_signals_count", "broken_signals_count", "valid_signal_count",
     "human_detections", "non_human_detections", "uncertain_detections",
     "activity_count", "led_state", "led_timer_counter",
     "last_counter_update_time", "previous_distance", "distance_threshold_cm"}

\* C20: the consumer thread never itself reads or writes the worker's mutable
\* loop state; no field of it is accessed by both threads.
C20_ConsumerKeepsOffLoopState == gui_access \cap C20_LoopState = {}

\* stop() has set the flag and has not yet gone on
C20_Witness ==
    /\ gui_pc = "stop_led"
    /\ gui_access = {"is_running"}
    /\ pc = "classify"

\* the loop is between two iterations, or has ended
IterationBoundary == pc \in {"top", "done"}

\* C29: at every iteration boundary of the detection loop the total count
\* equals the broken count plus the valid count, whatever mix of valid
\* readings, broken readings and iterations ended by an exception came before.
C29_TotalIsBrokenPlusValid ==
    IterationBoundary
        => total_signals_count = broken_signals_count + valid_signal_count

\* three iterations are over: one ended by an exception of the poll, one with
\* a broken reading and one with a valid reading
C29_Witness ==
    /\ pc = "top"
    /\ polls = 3
    /\ link_error
    /\ broken_signals_count = 1
    /\ valid_signal_count = 1
    /\ total_signals_count = 2

\* C28: while the LED is already On, an activity event increments the
\* activity counter and emits the activity notification, leaves the LED
\* state, the LED counter and its baseline as they are and issues no LED
\* command; while the LED stays On its counter goes back only in the timer
\* step of a reading classified as human.
C28_ActivityWhileOn ==
    [][/\ (ActivityStepTaken /\ led_state /\ activity_detected')
           => /\ activity_count' = activity_count + 1
              /\ emitted'["activity_detected"] =
                     emitted["activity_detected"] + 1
              /\ UNCHANGED <<led, led_cmds>>
       /\ (led_state /\ led_state' /\ led_timer_counter' < led_timer_counter)
           => TimerStepTaken /\ current_detection_state = "human"]_vars

\* a second activity event came while the LED was on with a counter above 0:
\* one LED command so far, and the counter kept
C28_Witness ==
    /\ pc = "classify"
    /\ activity_detected
    /\ activity_count = 2
    /\ led_state
    /\ led_timer_counter > 0
    /\ led_cmds = <<TRUE>>

\* C25: a broken reading does not update or reset previous_distance, in its
\* poll step and in the rest of its iteration; previous_distance is written
\* only by the activity step of a valid reading, so that step compares the
\* reading with the valid reading before it, across the broken ones between.
C25_BrokenKeepsPreviousDistance ==
    [][/\ (BrokenPollTaken \/ (~data_valid /\ pc # "poll"))
           => UNCHANGED previous_distance
       /\ previous_distance' # previous_distance
           => ActivityStepTaken /\ data_valid
       /\ ActivityStepTaken
           => distance_change' = DistanceChange(previous_distance, distance)]_vars

\* a valid reading at 50 cm, a broken reading, a valid reading at 65 cm: the
\* activity step of the third found a change of 15 cm
C25_Witness ==
    /\ pc = "classify"
    /\ total_signals_count = 3
    /\ broken_signals_count = 1
    /\ valid_signal_count = 2
    /\ activity_detected
    /\ distance_change = 15
    /\ previous_distance = Some(65)

\* get_data_from_server has returned
FrameReturned == frame_pc \in {"returned", "valid", "broken"}

\* C26: within one poll, requests and replies alternate strictly, with at
\* most one request outstanding and that only while the call waits in recv;
\* when every block arrived in sequence the call has sent exactly
\* total_data_blocks requests by the time it returns; after the first block
\* whose number differs from its position no further request is sent.
C26_RequestsAlternateWithReplies ==
    /\ requests - replies = (IF frame_pc = "recv" THEN 1 ELSE 0)
    /\ (FrameReturned /\ mismatch_at = None) => requests = total_data_blocks
    /\ mismatch_at # None
           => /\ requests = Val(mismatch_at) + 1
              /\ replies = requests

\* three blocks announced; the second datagram carried another block's
\* number, and the call returned after two requests and two replies
C26_Witness ==
    /\ total_data_blocks = 3
    /\ mismatch_at = Some(1)
    /\ frame_pc = "returned"
    /\ requests = 2
    /\ replies = 2

\* three blocks announced, three requests sent, three replies in sequence
C26_AllBlocksInSequence ==
    /\ total_data_blocks = 3
    /\ mismatch_at = None
    /\ frame_pc = "returned"
    /\ requests = 3
    /\ replies = 3
    /\ Len(ultrasonic_data) = 3

\* the state of the LED timer between two iterations, for a duration in
\* seconds: Off with counter 0 and no baseline, or On with a baseline and a
\* counter in [0, duration)
BoundaryState(duration) ==
    pc = "top"
        => /\ ~led_state
               => /\ led_timer_counter = 0
                  /\ last_counter_update_time = None
           /\ led_state
               => /\ last_counter_update_time # None
                  /\ led_timer_counter >= 0
                  /\ led_timer_counter < duration * TicksPerSecond

\* C27: at every iteration boundary, if the LED is Off the counter is 0 and
\* the baseline is cleared; if the LED is On the baseline is set and the
\* counter is at least 0 and below the configured duration, the one
\* set_timer_handler stored last.
C27_BoundaryStateMatchesLed == BoundaryState(settings_LED_TIMER_DURATION)

\* the same held against the duration the worker module imported: this the
\* loop keeps, whatever the consumer configured since
BoundaryAgainstImportedDuration == BoundaryState(LED_TIMER_DURATION)

\* the duration was set to 5 s; an iteration ended with the LED on and the
\* counter at 5 s or more
C27_Witness ==
    /\ pc = "top"
    /\ settings_LED_TIMER_DURATION = 5
    /\ led_state
    /\ led_timer_counter >= 5 * TicksPerSecond

\* C21: the stop flag is tested only at the top of the loop: the loop ends
\* only there, with the flag down, and a loop that finds the flag down at the
\* top starts no poll.  After stop() has set the flag the worker finishes at
\* most the iteration in flight: at most one more poll returns and at most
\* one more result is emitted.  Then the loop ends, provided the worker keeps
\* running and the receive in flight returns.
C21_StopEndsLoopAfterIteration ==
    /\ [][/\ (pc # "done" /\ pc' = "done") => (pc = "top" /\ ~is_running)
          /\ (pc = "top" /\ ~is_running) => pc' # "poll"]_vars
    /\ [](stop_mark # None
             => /\ emitted["result"] <= Val(stop_mark)[1] + 1
                /\ polls <= Val(stop_mark)[2] + 1)
    /\ (~is_running ~> pc = "done")

\* stop() set the flag while the second poll was in flight, after one result;
\* that poll returned a valid reading, its result was emitted, the loop ended
C21_Witness ==
    /\ stop_mark = Some(<<1, 1>>)
    /\ pc = "done"
    /\ polls = 2
    /\ emitted["result"] = 2

\* C22: the activity step of a reading whose distance is absent, or that
\* finds no previous distance, reports no activity and leaves the activity
\* counter as it is; every activity step, detected or not, distance present
\* or absent, ends with previous_distance equal to the reading's distance, so
\* the reading after one without a distance reports no activity either.
C22_AbsentDistanceResetsTracking ==
    [][ActivityStepTaken
          => /\ (previous_distance = None \/ distance = None)
                    => /\ ~activity_detected'
                       /\ distance_change' = 0
                       /\ UNCHANGED <<activity_count, emitted, led, led_cmds>>
             /\ previous_distance' = distance]_vars

\* readings at 50 cm, without a distance and at 65 cm: the third reading's
\* activity step found no previous distance and reported no activity
C22_Witness ==
    /\ pc = "classify"
    /\ valid_signal_count = 3
    /\ distance = Some(65)
    /\ previous_distance = Some(65)
    /\ ~activity_detected
    /\ activity_count = 0
    /\ distance_change = 0

\* the rate step of run is being taken
RateStepTaken == pc = "rate" /\ pc' = "throttle"

\* the smaller of two numbers
Min(a, b) == IF a < b THEN a ELSE b

\* the valid reading counted and not yet through its rate step
C23_InFlight ==
    IF data_valid /\ pc \in {"activity", "classify", "timer", "rate"}
    THEN 1 ELSE 0

C24_OneLoopPolls == Cardinality(Polling) <= 1

\* start pressed twice: two workers are polling the one socket, and the
\* window holds only the second
C24_Witness ==
    /\ Len(workers) = 2
    /\ Polling = {1, 2}
    /\ window_worker = 2
    /\ workers[1].is_running

\* C30: a worker is created and started only by a start whose remote command
\* and whose handshake have returned, with header_length and
\* total_data_blocks set; a start whose remote command or handshake raises
\* ends there, with no worker created or started; so a worker exists, and
\* get_data_from_server is called, only after a handshake has succeeded.
C30_HandshakePrecedesPolling ==
    /\ [](/\ workers # <<>> => handshake_done
          /\ Polling # {} => handshake_done
          /\ Len(workers) + start_errors <= starts)
    /\ [][/\ workers' # workers /\ Len(workers') # Len(workers)
              => /\ start_pc = "create"
                 /\ handshake_done
                 /\ UNCHANGED start_errors
          /\ (start_pc # "create" /\ start_pc' = "create")
              => (start_pc = "handshake" /\ handshake_done')
          /\ start_errors' # start_errors
              => /\ start_pc \in {"ssh", "handshake"}
                 /\ start_pc' = "idle"
                 /\ UNCHANGED workers]_vars

\* the first start failed in its handshake and started nothing; the second
\* succeeded, and its worker is polling
C30_Witness ==
    /\ starts = 2
    /\ start_errors = 1
    /\ Len(workers) = 1
    /\ workers[1].pc = "poll"
    /\ handshake_done

====
